---- MODULE Spec2Model ----
(***************************************************************************)
(* Challenge participation / progress subsystem of the scouting backend.   *)
(*                                                                         *)
(* The relational store (Challenge, ChallengeParticipant, ProgressLog and  *)
(* User tables with their unique index and foreign keys) is the shared     *)
(* state.  Every HTTP request is an independently scheduled task that      *)
(* suspends only at its awaited store calls, so a handler is modelled as   *)
(* one action per awaited store call; the synchronous code before and      *)
(* after the call belongs to the same action.                              *)
(***************************************************************************)
EXTENDS Integers, FiniteSets, Sequences, TLC

(***************************************************************************)
(* Bounds of the model.                                                    *)
(***************************************************************************)
MaxParticipants == 2      \* participant rows ever inserted
MaxLogs == 3              \* ProgressLog rows ever inserted
MaxChallenges == 3        \* Challenge rows ever inserted

Requests == {1, 2}        \* request tasks that may be in flight together

(***************************************************************************)
(* Values.                                                                 *)
(***************************************************************************)
Null == 0                                 \* SQL NULL / JS null (ids and instants start at 1)
DefaultTargetProgress == 100              \* "targetProgress" ... DEFAULT 100
ProgressCap == 100                        \* the literal 100 of Math.min(..., 100)

ParticipantStatus == {"ACTIVE", "COMPLETED", "DROPPED", "PAUSED"}

SeedChallenges == {1, 2}                  \* Challenge rows present at start
ApiChallenges == {1}                      \* those created through the API: default target
SeededChallenges == SeedChallenges \ ApiChallenges   \* those with a target of Targets
SeedUsers == {1}                          \* User rows present at start that take part
Organisers == {3}                         \* User rows present at start that only create
UserIdInputs == {0, 1, 2}                 \* 0: absent from the body, 2: no such user
ChallengeIdInputs == {0, 1, 2}            \* 0: absent from the body
Targets == {0, 50, 100, 150}              \* targetProgress of the seeded challenge
Deltas == {-50, 50, 120}                   \* progressDelta values of requests
Titles == {"", "swim"}                    \* title of the body, "": absent
ChallengeIdParams == (1..MaxChallenges) \ SeededChallenges   \* created through the API
StatisticsIdParams == SeededChallenges \cup {MaxChallenges}   \* the latter: no such row
LimitInputs == {1, 10}                    \* ?limit=, 10: absent from the query
StatusQueryInputs == {"all", "completed", "SIDEWAYS"}   \* ?status=, "all": absent
StatusInputs == ParticipantStatus \cup {"SIDEWAYS", ""}   \* "": absent from the body
Descriptions == {"", "ran 5k"}
ParticipantIdInputs == 1..MaxParticipants

Undefined == [defined |-> FALSE, val |-> 0]
DeltaInputs == {Undefined} \cup {[defined |-> TRUE, val |-> d] : d \in Deltas}

\* Number(progressDelta) on a JSON number
NumberOf(v) == v.val

Min(a, b) == IF a <= b THEN a ELSE b

\* the clock has moved on when the next new Date() reads it
Later(t) == t + 1

VARIABLES
  users,              \* ids of the User rows
  challenges,         \* Challenge rows: id -> [title, targetProgress, creatorId]
  nextChallengeId,    \* SERIAL of Challenge.id
  participants,       \* ChallengeParticipant rows: id -> row
  nextParticipantId,  \* SERIAL of ChallengeParticipant.id
  progressLogs,       \* ProgressLog rows: id -> row
  nextLogId,          \* SERIAL of ProgressLog.id
  now,                \* the instant new Date() / CURRENT_TIMESTAMP gives
  pc,                 \* per request task: the awaited call it is suspended before
  req,                \* per request task: params, body and locals of the handler
  res                 \* the response sent last, with the request it answers

vars == <<users, challenges, nextChallengeId, participants, nextParticipantId, progressLogs,
          nextLogId, now, pc, req, res>>

store == <<users, challenges, nextChallengeId, participants, nextParticipantId, progressLogs, nextLogId>>

NoRequest == [handler |-> "", id |-> 0, challengeId |-> 0, userId |-> 0, limit |-> 0,
              title |-> "", pending |-> {}, challenge |-> FALSE, participants |-> << >>,
              completedCount |-> 0, averageProgress |-> 0,
              progressDelta |-> Undefined, description |-> "", status |-> "",
              newProgress |-> 0, isCompleted |-> FALSE, participantStatus |-> ""]
\* the stats object of getUserAllProgress, of a response that carries none
NoStats == [total |-> 0, completed |-> 0, active |-> 0, dropped |-> 0, averageProgress |-> 0]

\* fastestCompletion: null
NoCompletion == [userId |-> Null, days |-> 0]

\* the statistics object of getChallengeStatistics, of a response that carries none
NoStatistics == [totalParticipants |-> 0, completedCount |-> 0, completionRate |-> 0,
                 averageProgress |-> 0, statusBreakdown |-> << >>,
                 fastestCompletion |-> NoCompletion]

NoResponse == [handler |-> "", id |-> 0, challengeId |-> 0, userId |-> 0, limit |-> 0,
               requested |-> "", status |-> 0, message |-> "", leaderboard |-> << >>,
               stats |-> NoStats, statistics |-> NoStatistics]

\* the response to a request, with the params of the request it answers
Echo(request, status, message) ==
  [NoResponse EXCEPT !.handler = request.handler, !.id = request.id,
                     !.challengeId = request.challengeId, !.userId = request.userId,
                     !.limit = request.limit, !.requested = request.status,
                     !.status = status, !.message = message]

\* the request of a handler: req.params.id and the fields of req.body it reads
Request(handler, id, challengeId, userId) ==
  [NoRequest EXCEPT !.handler = handler, !.id = id,
                    !.challengeId = challengeId, !.userId = userId]

\* res.status(status).json({message}), which ends the handler of task r
Respond(r, request, status, message) ==
  /\ res' = Echo(request, status, message)
  /\ pc' = [pc EXCEPT ![r] = "idle"]
  /\ req' = [req EXCEPT ![r] = NoRequest]

\* the handler of task r suspends at its next awaited store call
Await(r, label, request) ==
  /\ pc' = [pc EXCEPT ![r] = label]
  /\ req' = [req EXCEPT ![r] = request]
  /\ UNCHANGED res

(***************************************************************************)
(* updateProgress                                                          *)
(***************************************************************************)

\* variant: the guard looks at the progress instead of the status
AlreadyCompleted_ByProgress(participant) == participant.progress >= ProgressCap

\* variant: every status but ACTIVE blocks the update
AlreadyCompleted_NotActive(participant) == participant.status # "ACTIVE"

\* if (participant.status === 'COMPLETED')
AlreadyCompleted(participant) == participant.status = "COMPLETED"

\* variant: the sum is not capped
NewProgress_Uncapped(participant, progressDelta) ==
  participant.progress + NumberOf(progressDelta)

\* const newProgress = Math.min(participant.progress + Number(progressDelta), 100)
NewProgress(participant, progressDelta) ==
  Min(participant.progress + NumberOf(progressDelta), ProgressCap)

\* const targetProgress = participant.challenge.targetProgress || 100
TargetProgress(challenge) ==
  IF challenge.targetProgress # 0 THEN challenge.targetProgress ELSE DefaultTargetProgress

\* variant: the target has to be exceeded
IsCompleted_Strict(newProgress, challenge) == newProgress > TargetProgress(challenge)

\* const isCompleted = newProgress >= targetProgress
IsCompleted(newProgress, challenge) == newProgress >= TargetProgress(challenge)

\* data of prisma.challengeParticipant.update inside the transaction
ProgressUpdateData(row, newProgress, isCompleted, participantStatus, t) ==
  [row EXCEPT !.progress = newProgress,
              !.status = IF isCompleted THEN "COMPLETED" ELSE participantStatus,
              !.completedAt = IF isCompleted THEN t ELSE Null]

\* variant: the row records the delta capped like the progress
ProgressLogData_Capped(id, progressDelta, description, t) ==
  [participantId |-> id, taskId |-> Null, description |-> description,
   progressDelta |-> Min(NumberOf(progressDelta), ProgressCap), createdAt |-> t]

\* data of prisma.progressLog.create inside the transaction
ProgressLogData(id, progressDelta, description, t) ==
  [participantId |-> id, taskId |-> Null, description |-> description,
   progressDelta |-> NumberOf(progressDelta), createdAt |-> t]

\* variant: an upsert keyed by the participant, which keeps one row per participant
ProgressLogCreate_Upsert(logs, id, data) ==
  [l \in {k \in DOMAIN logs : logs[k].participantId # data.participantId} \cup {id} |->
     IF l = id THEN data ELSE logs[l]]

\* prisma.progressLog.create: one more row, under the next id of the sequence
ProgressLogCreate(logs, id, data) ==
  [l \in DOMAIN logs \cup {id} |-> IF l = id THEN data ELSE logs[l]]

\* variant: two separate writes, the first one stays when the second fails
Transaction_Separate(before, afterFirst, afterSecond, failedAt) ==
  IF failedAt = "none" THEN afterSecond
  ELSE IF failedAt = "create" THEN afterFirst ELSE before

\* prisma.$transaction([first, second]): the writes commit together or not at all
Transaction(before, afterFirst, afterSecond, failedAt) ==
  IF failedAt = "none" THEN afterSecond ELSE before

StoreFailures == {"none", "update", "create"}

\* the number of request tasks suspended at one of the labels
InFlight(labels) == Cardinality({r \in Requests : pc[r] \in labels})

\* variant: the log row is written before the participant is looked up
UpdateProgress_LogFirst(r, id, progressDelta, description) ==
  /\ pc[r] = "idle"
  /\ nextLogId + InFlight({"updateProgress_transaction"}) <= MaxLogs
  /\ LET request == [Request("updateProgress", id, 0, 0) EXCEPT
                       !.progressDelta = progressDelta, !.description = description]
     IN IF ~progressDelta.defined \/ description = ""
        THEN /\ Respond(r, request, 400, "progressDelta and description are required")
             /\ UNCHANGED <<progressLogs, nextLogId>>
        ELSE IF id \notin DOMAIN participants
        THEN /\ Respond(r, request, 404, "Participant not found")
             /\ progressLogs' =
                  ProgressLogCreate(progressLogs, nextLogId,
                                    ProgressLogData(id, progressDelta, description, now))
             /\ nextLogId' = nextLogId + 1
        ELSE /\ UNCHANGED <<progressLogs, nextLogId>>
             /\ IF AlreadyCompleted(participants[id])
                THEN Respond(r, request, 400, "Challenge already completed")
                ELSE LET participant == participants[id]
                         newProgress == NewProgress(participant, progressDelta)
                     IN Await(r, "updateProgress_transaction",
                              [request EXCEPT
                                 !.newProgress = newProgress,
                                 !.isCompleted =
                                    IsCompleted(newProgress,
                                                challenges[participant.challengeId]),
                                 !.participantStatus = participant.status])
  /\ UNCHANGED <<users, challenges, nextChallengeId, participants, nextParticipantId, now>>

\* validation, prisma.challengeParticipant.findUnique and the code up to the transaction
UpdateProgress(r, id, progressDelta, description) ==
  /\ pc[r] = "idle"
  /\ nextLogId + InFlight({"updateProgress_transaction"}) <= MaxLogs
  /\ LET request == [Request("updateProgress", id, 0, 0) EXCEPT
                       !.progressDelta = progressDelta, !.description = description]
     IN IF ~progressDelta.defined \/ description = ""
        THEN Respond(r, request, 400, "progressDelta and description are required")
        ELSE IF id \notin DOMAIN participants
        THEN Respond(r, request, 404, "Participant not found")
        ELSE IF AlreadyCompleted(participants[id])
        THEN Respond(r, request, 400, "Challenge already completed")
        ELSE LET participant == participants[id]
                 newProgress == NewProgress(participant, progressDelta)
             IN Await(r, "updateProgress_transaction",
                      [request EXCEPT
                         !.newProgress = newProgress,
                         !.isCompleted =
                            IsCompleted(newProgress, challenges[participant.challengeId]),
                         !.participantStatus = participant.status])
  /\ UNCHANGED <<store, now>>

\* prisma.$transaction([challengeParticipant.update, progressLog.create]) and the response
UpdateProgressTransaction(r, failure) ==
  /\ pc[r] = "updateProgress_transaction"
  /\ LET id == req[r].id
         failedAt == IF id \notin DOMAIN participants THEN "update" ELSE failure
         before == [participants |-> participants, progressLogs |-> progressLogs,
                    nextLogId |-> nextLogId]
         afterFirst ==
           IF id \in DOMAIN participants
           THEN [before EXCEPT !.participants[id] =
                   ProgressUpdateData(participants[id], req[r].newProgress,
                                      req[r].isCompleted, req[r].participantStatus, now)]
           ELSE before
         afterSecond ==
           [afterFirst EXCEPT
              !.progressLogs =
                 ProgressLogCreate(progressLogs, nextLogId,
                                   ProgressLogData(id, req[r].progressDelta,
                                                   req[r].description, now)),
              !.nextLogId = nextLogId + 1]
         after == Transaction(before, afterFirst, afterSecond, failedAt)
     IN /\ participants' = after.participants
        /\ progressLogs' = after.progressLogs
        /\ nextLogId' = after.nextLogId
        /\ now' = IF failedAt = "none" THEN Later(now) ELSE now
        /\ IF failedAt = "none"
           THEN Respond(r, req[r], 200, IF req[r].isCompleted
                                        THEN "Congratulations! Challenge completed!"
                                        ELSE "Progress updated")
           ELSE IF id \notin DOMAIN participants
           THEN Respond(r, req[r], 500, "Record to update not found")
           ELSE IF failedAt = "update"
           THEN Respond(r, req[r], 500, "Store failure in update")
           ELSE Respond(r, req[r], 500, "Store failure in create")
  /\ UNCHANGED <<users, challenges, nextChallengeId, nextParticipantId>>

(***************************************************************************)
(* createParticipant (join a challenge)                                    *)
(***************************************************************************)

\* ids of the rows holding the pair (challengeId, userId), other than row `except`:
\* what the unique index ChallengeParticipant_challengeId_userId_key looks up
RowsOfPair(rows, challengeId, userId, except) ==
  {p \in DOMAIN rows \ {except} :
     rows[p].challengeId = challengeId /\ rows[p].userId = userId}

\* variant: the index on the pair is not unique
UniqueViolation_None(rows, challengeId, userId, except) == FALSE

\* the unique index rejects a second row for a pair (P2002)
UniqueViolation(rows, challengeId, userId, except) ==
  RowsOfPair(rows, challengeId, userId, except) # {}

\* variant: no foreign key on userId
ForeignKeyViolation_ChallengeOnly(challengeId, userId) ==
  challengeId \notin DOMAIN challenges

\* ChallengeParticipant_challengeId_fkey / _userId_fkey reject a dangling reference (P2003)
ForeignKeyViolation(challengeId, userId) ==
  challengeId \notin DOMAIN challenges \/ userId \notin users

\* variant: completedAt is stamped at creation like joinedAt
CreateParticipantData_Stamped(challengeId, userId, t) ==
  [challengeId |-> challengeId, userId |-> userId, progress |-> 0,
   status |-> "ACTIVE", joinedAt |-> t, completedAt |-> t]

\* data of prisma.challengeParticipant.create, with the column defaults
CreateParticipantData(challengeId, userId, t) ==
  [challengeId |-> challengeId, userId |-> userId, progress |-> 0,
   status |-> "ACTIVE", joinedAt |-> t, completedAt |-> Null]

\* validation and prisma.challenge.findUnique
CreateParticipant(r, challengeId, userId) ==
  /\ pc[r] = "idle"
  /\ LET request == Request("createParticipant", 0, challengeId, userId)
     IN IF challengeId = 0 \/ userId = 0
        THEN Respond(r, request, 400, "challengeId and userId are required")
        ELSE IF challengeId \notin DOMAIN challenges
        THEN Respond(r, request, 404, "Challenge not found")
        ELSE Await(r, "createParticipant_create", request)
  /\ UNCHANGED <<store, now>>

\* prisma.challengeParticipant.create and the catch block
CreateParticipantCreate(r) ==
  /\ pc[r] = "createParticipant_create"
  /\ LET challengeId == req[r].challengeId
         userId == req[r].userId
     IN IF UniqueViolation(participants, challengeId, userId, Null)
        THEN /\ Respond(r, req[r], 400, "User already joined this challenge.")
             /\ UNCHANGED <<participants, nextParticipantId>>
        ELSE IF ForeignKeyViolation(challengeId, userId)
        THEN /\ Respond(r, req[r], 404, "User or Challenge not found")
             /\ UNCHANGED <<participants, nextParticipantId>>
        ELSE /\ nextParticipantId <= MaxParticipants
             /\ participants' =
                  [p \in DOMAIN participants \cup {nextParticipantId} |->
                     IF p = nextParticipantId
                     THEN CreateParticipantData(challengeId, userId, now)
                     ELSE participants[p]]
             /\ nextParticipantId' = nextParticipantId + 1
             /\ Respond(r, req[r], 201, "created")
  /\ UNCHANGED <<users, challenges, nextChallengeId, progressLogs, nextLogId, now>>

(***************************************************************************)
(* updateParticipantStatus                                                 *)
(***************************************************************************)

\* variant: the membership test lets every value through
validStatuses_Any == StatusInputs

\* const validStatuses = ['ACTIVE', 'COMPLETED', 'DROPPED', 'PAUSED']
validStatuses == {"ACTIVE", "COMPLETED", "DROPPED", "PAUSED"}

\* variant: the update also keeps completedAt in step with the status
StatusUpdateData_Stamping(row, status) ==
  [row EXCEPT !.status = status,
              !.completedAt = IF status = "COMPLETED" THEN @ ELSE Null]

\* data: { status } of prisma.challengeParticipant.update
StatusUpdateData(row, status) == [row EXCEPT !.status = status]

UpdateParticipantStatus(r, id, status) ==
  /\ pc[r] = "idle"
  /\ LET request == [Request("updateParticipantStatus", id, 0, 0) EXCEPT !.status = status]
     IN IF status \notin validStatuses
        THEN /\ Respond(r, request, 400,
                        "Invalid status. Must be one of: ACTIVE, COMPLETED, DROPPED, PAUSED")
             /\ UNCHANGED participants
        ELSE IF id \notin DOMAIN participants
        THEN /\ Respond(r, request, 404, "Participant not found")
             /\ UNCHANGED participants
        ELSE /\ participants' = [participants EXCEPT ![id] = StatusUpdateData(@, status)]
             /\ Respond(r, request, 200, "Status updated to " \o status)
  /\ UNCHANGED <<users, challenges, nextChallengeId, nextParticipantId, progressLogs, nextLogId, now>>

(***************************************************************************)
(* updateParticipant                                                       *)
(***************************************************************************)

\* data: { challengeId, userId }: a field absent from the body is left as it is
ParticipantUpdateData(row, challengeId, userId) ==
  [row EXCEPT !.challengeId = IF challengeId = 0 THEN @ ELSE challengeId,
              !.userId = IF userId = 0 THEN @ ELSE userId]

UpdateParticipant(r, id, challengeId, userId) ==
  /\ pc[r] = "idle"
  /\ LET request == Request("updateParticipant", id, challengeId, userId)
     IN IF id \notin DOMAIN participants
        THEN /\ Respond(r, request, 500, "Record to update not found")
             /\ UNCHANGED participants
        ELSE LET data == ParticipantUpdateData(participants[id], challengeId, userId)
             IN IF UniqueViolation(participants, data.challengeId, data.userId, id)
                THEN /\ Respond(r, request, 400,
                                "This user is already registered for the challenge.")
                     /\ UNCHANGED participants
                ELSE IF ForeignKeyViolation(data.challengeId, data.userId)
                THEN /\ Respond(r, request, 500, "Foreign key constraint failed")
                     /\ UNCHANGED participants
                ELSE /\ participants' = [participants EXCEPT ![id] = data]
                     /\ Respond(r, request, 200, "updated")
  /\ UNCHANGED <<users, challenges, nextChallengeId, nextParticipantId, progressLogs, nextLogId, now>>

(***************************************************************************)
(* deleteParticipant                                                       *)
(***************************************************************************)

\* variant: the foreign key does not cascade and the rows stay
CascadeLogs_Kept(logs, id) == logs

\* ProgressLog_participantId_fkey ... ON DELETE CASCADE
CascadeLogs(logs, id) ==
  [l \in {k \in DOMAIN logs : logs[k].participantId # id} |-> logs[l]]

DeleteParticipant(r, id) ==
  /\ pc[r] = "idle"
  /\ LET request == Request("deleteParticipant", id, 0, 0)
     IN IF id \notin DOMAIN participants
        THEN /\ Respond(r, request, 500, "Record to delete does not exist")
             /\ UNCHANGED <<participants, progressLogs>>
        ELSE /\ participants' = [p \in DOMAIN participants \ {id} |-> participants[p]]
             /\ progressLogs' = CascadeLogs(progressLogs, id)
             /\ Respond(r, request, 200, "Participant removed")
  /\ UNCHANGED <<users, challenges, nextChallengeId, nextParticipantId, nextLogId, now>>

(***************************************************************************)
(* deleteChallenge                                                         *)
(***************************************************************************)

\* variant: no participant row holds the challenge back
ChallengeRestricted_Never(rows, id) == FALSE

\* ChallengeParticipant_challengeId_fkey ... ON DELETE RESTRICT
ChallengeRestricted(rows, id) == \E p \in DOMAIN rows : rows[p].challengeId = id

DeleteChallenge(r, id) ==
  /\ pc[r] = "idle"
  /\ LET request == Request("deleteChallenge", id, 0, 0)
     IN IF id \notin DOMAIN challenges
        THEN /\ Respond(r, request, 404, "Challenge not found")
             /\ UNCHANGED challenges
        ELSE IF ChallengeRestricted(participants, id)
        THEN /\ Respond(r, request, 500, "Failed to delete challenge")
             /\ UNCHANGED challenges
        ELSE /\ challenges' = [c \in DOMAIN challenges \ {id} |-> challenges[c]]
             /\ Respond(r, request, 200, "Challenge deleted successfully")
  /\ UNCHANGED <<users, nextChallengeId, participants, nextParticipantId, progressLogs,
                 nextLogId, now>>

(***************************************************************************)
(* deleteUser                                                              *)
(***************************************************************************)

\* variant: the participant rows of the user do not hold it back
UserRestricted_NoParticipants(rows, id, elsewhere) ==
  \/ \E c \in DOMAIN challenges : challenges[c].creatorId = id
  \/ elsewhere

\* ChallengeParticipant_userId_fkey and Challenge_creatorId_fkey ... ON DELETE RESTRICT;
\* `elsewhere`: a row of another table (Profile, Video, Comment, ...) references the user
UserRestricted(rows, id, elsewhere) ==
  \/ \E p \in DOMAIN rows : rows[p].userId = id
  \/ \E c \in DOMAIN challenges : challenges[c].creatorId = id
  \/ elsewhere

\* parseInt(req.params.id) and prisma.user.findUnique
DeleteUser(r, id) ==
  /\ pc[r] = "idle"
  /\ LET request == Request("deleteUser", id, 0, 0)
     IN IF id \notin users
        THEN Respond(r, request, 404, "User not found")
        ELSE Await(r, "deleteUser_delete", request)
  /\ UNCHANGED <<store, now>>

\* prisma.user.delete and the catch block
DeleteUserDelete(r, elsewhere) ==
  /\ pc[r] = "deleteUser_delete"
  /\ LET id == req[r].id
     IN IF id \notin users \/ UserRestricted(participants, id, elsewhere)
        THEN /\ Respond(r, req[r], 500, "Server error")
             /\ UNCHANGED users
        ELSE /\ users' = users \ {id}
             /\ Respond(r, req[r], 200, "User deleted successfully")
  /\ UNCHANGED <<challenges, nextChallengeId, participants, nextParticipantId,
                 progressLogs, nextLogId, now>>

(***************************************************************************)
(* createChallenge and updateChallenge                                     *)
(***************************************************************************)

\* data of prisma.challenge.create: title and creatorId (description, startAt and endAt
\* are not kept here); targetProgress is not in the data and takes the column default
ChallengeCreateData(title, creatorId) ==
  [title |-> title, targetProgress |-> DefaultTargetProgress, creatorId |-> creatorId]

\* req.user is the authenticated user; prisma.challenge.create and the catch block
CreateChallenge(r, title, user) ==
  /\ pc[r] = "idle"
  /\ LET request == [Request("createChallenge", 0, 0, user) EXCEPT !.title = title]
     IN IF title = "" \/ user \notin users
        THEN /\ Respond(r, request, 500, "Failed to create challenge")
             /\ UNCHANGED <<challenges, nextChallengeId>>
        ELSE /\ nextChallengeId <= MaxChallenges
             /\ challenges' =
                  [c \in DOMAIN challenges \cup {nextChallengeId} |->
                     IF c = nextChallengeId THEN ChallengeCreateData(title, user)
                     ELSE challenges[c]]
             /\ nextChallengeId' = nextChallengeId + 1
             /\ Respond(r, request, 201, "Challenge created successfully")
  /\ UNCHANGED <<users, participants, nextParticipantId, progressLogs, nextLogId, now>>

\* variant: the update takes a target from the body
ChallengeUpdateData_WithTarget(row, title) ==
  [row EXCEPT !.title = IF title = "" THEN @ ELSE title, !.targetProgress = 50]

\* data of prisma.challenge.update: a title absent from the body is left as it is
ChallengeUpdateData(row, title) ==
  [row EXCEPT !.title = IF title = "" THEN @ ELSE title]

\* prisma.challenge.findUnique and the authorization check
UpdateChallenge(r, id, title, user, admin) ==
  /\ pc[r] = "idle"
  /\ LET request == [Request("updateChallenge", id, 0, user) EXCEPT !.title = title]
     IN IF id \notin DOMAIN challenges
        THEN Respond(r, request, 404, "Challenge not found")
        ELSE IF challenges[id].creatorId # user /\ ~admin
        THEN Respond(r, request, 403, "Not authorized to update this challenge")
        ELSE Await(r, "updateChallenge_update", request)
  /\ UNCHANGED <<store, now>>

\* prisma.challenge.update and the catch block
UpdateChallengeUpdate(r) ==
  /\ pc[r] = "updateChallenge_update"
  /\ LET id == req[r].id
     IN IF id \notin DOMAIN challenges
        THEN /\ Respond(r, req[r], 500, "Failed to update challenge")
             /\ UNCHANGED challenges
        ELSE /\ challenges' = [challenges EXCEPT ![id] = ChallengeUpdateData(@, req[r].title)]
             /\ Respond(r, req[r], 200, "Challenge updated successfully")
  /\ UNCHANGED <<users, nextChallengeId, participants, nextParticipantId, progressLogs,
                 nextLogId, now>>

(***************************************************************************)
(* getChallengeLeaderboard                                                 *)
(***************************************************************************)

\* status.toUpperCase(), on the values of the status query parameter
ToUpperCase(status) ==
  IF status = "all" THEN "ALL"
  ELSE IF status = "completed" THEN "COMPLETED"
  ELSE status

\* whereClause: the challenge, and the status unless it is 'all'
WhereClause(challengeId, status) ==
  [challengeId |-> challengeId,
   status |-> IF status # "all" THEN ToUpperCase(status) ELSE "all"]

\* the ids of the rows the where clause selects
FindMany(rows, where) ==
  {p \in DOMAIN rows :
     /\ rows[p].challengeId = where.challengeId
     /\ where.status # "all" => rows[p].status = where.status}

\* the orders in which the scan of the table may deliver the selected rows
ScanOrders(ids) ==
  {scan \in [1..Cardinality(ids) -> ids] :
     \A i, j \in 1..Cardinality(ids) : i # j => scan[i] # scan[j]}

\* variant: progress ascending
OrderedBefore_Ascending(a, b) ==
  \/ a.progress < b.progress
  \/ /\ a.progress = b.progress
     /\ a.completedAt # Null
     /\ (b.completedAt = Null \/ a.completedAt < b.completedAt)

\* orderBy: [{ progress: 'desc' }, { completedAt: 'asc' }]: row a sorts strictly before
\* row b; ascending order puts NULL last
OrderedBefore(a, b) ==
  \/ a.progress > b.progress
  \/ /\ a.progress = b.progress
     /\ a.completedAt # Null
     /\ (b.completedAt = Null \/ a.completedAt < b.completedAt)

\* the sorted sequence with one more row, placed after the rows it does not sort before
RECURSIVE InsertOrdered(_, _, _)
InsertOrdered(rows, p, sorted) ==
  IF sorted = << >> THEN <<p>>
  ELSE IF OrderedBefore(rows[p], rows[Head(sorted)]) THEN <<p>> \o sorted
  ELSE <<Head(sorted)>> \o InsertOrdered(rows, p, Tail(sorted))

\* the rows of a scan in the order of the orderBy; rows that tie keep their scan order
RECURSIVE OrderBy(_, _)
OrderBy(rows, scan) ==
  IF scan = << >> THEN << >>
  ELSE InsertOrdered(rows, scan[Len(scan)], OrderBy(rows, SubSeq(scan, 1, Len(scan) - 1)))

\* take: Number(limit)
Take(sorted, limit) == SubSeq(sorted, 1, Min(Len(sorted), limit))

\* leaderboard.map((p, index) => ({ rank: index + 1, ... }))
LeaderboardEntries(rows, logs, found) ==
  [index \in 1..Len(found) |->
     [rank |-> index,
      participantId |-> found[index],
      user |-> rows[found[index]].userId,
      progress |-> rows[found[index]].progress,
      status |-> rows[found[index]].status,
      completedAt |-> rows[found[index]].completedAt,
      totalActivities |->
        Cardinality({l \in DOMAIN logs : logs[l].participantId = found[index]})]]

GetChallengeLeaderboard(r, challengeId, limit, status) ==
  /\ pc[r] = "idle"
  /\ LET request == [Request("getChallengeLeaderboard", 0, challengeId, 0) EXCEPT
                       !.limit = limit, !.status = status]
         where == WhereClause(challengeId, status)
     IN IF where.status \notin ParticipantStatus \cup {"all"}
        THEN Respond(r, request, 500, "Invalid value for argument status")
        ELSE \E scan \in ScanOrders(FindMany(participants, where)) :
               /\ res' = [Echo(request, 200, "") EXCEPT
                            !.leaderboard =
                               LeaderboardEntries(participants, progressLogs,
                                                  Take(OrderBy(participants, scan), limit))]
               /\ UNCHANGED <<pc, req>>
  /\ UNCHANGED <<store, now>>

(***************************************************************************)
(* getUserAllProgress                                                      *)
(***************************************************************************)

\* participations.filter(p => p.status === status).length
CountStatus(rows, ids, status) == Cardinality({p \in ids : rows[p].status = status})

\* participations.reduce((sum, p) => sum + p.progress, 0)
RECURSIVE SumProgress(_, _)
SumProgress(rows, ids) ==
  IF ids = {} THEN 0
  ELSE LET p == CHOOSE q \in ids : TRUE
       IN rows[p].progress + SumProgress(rows, ids \ {p})

\* (sum / n).toFixed(2): the quotient rounded to hundredths, kept as a number of hundredths
ToFixed2(sum, n) == (2 * 100 * sum + n) \div (2 * n)

\* const stats = { total, completed, active, dropped, averageProgress }
UserStats(rows, ids) ==
  [total |-> Cardinality(ids),
   completed |-> CountStatus(rows, ids, "COMPLETED"),
   active |-> CountStatus(rows, ids, "ACTIVE"),
   dropped |-> CountStatus(rows, ids, "DROPPED"),
   averageProgress |-> IF Cardinality(ids) > 0
                       THEN ToFixed2(SumProgress(rows, ids), Cardinality(ids))
                       ELSE 0]

\* prisma.challengeParticipant.findMany({ where: { userId } }) and the response, of which
\* the stats are kept (the list of the rows is not)
GetUserAllProgress(r, userId) ==
  /\ pc[r] = "idle"
  /\ LET request == Request("getUserAllProgress", 0, 0, userId)
         participations == {p \in DOMAIN participants : participants[p].userId = userId}
     IN res' = [Echo(request, 200, "") EXCEPT !.stats = UserStats(participants, participations)]
  /\ UNCHANGED <<pc, req, store, now>>

(***************************************************************************)
(* getChallengeStatistics                                                  *)
(***************************************************************************)

\* the four queries of the Promise.all; the store runs each on its own, in any order
StatisticsQueries == {"findUnique", "findMany", "count", "aggregate"}

\* the rows of challenge id
RowsOfChallenge(rows, id) ==
  [p \in {q \in DOMAIN rows : rows[q].challengeId = id} |-> rows[p]]


\* prisma.challengeParticipant.count({ where: { challengeId, status: 'COMPLETED' } })
CountCompleted(rows, id) ==
  Cardinality({p \in DOMAIN rows : rows[p].challengeId = id /\ rows[p].status = "COMPLETED"})

\* prisma.challengeParticipant.aggregate({ _avg: { progress } }) and
\* averageProgress._avg.progress?.toFixed(2) || 0, in hundredths
AverageProgress(rows, id) ==
  LET found == DOMAIN RowsOfChallenge(rows, id)
  IN IF found = {} THEN 0 ELSE ToFixed2(SumProgress(rows, found), Cardinality(found))

\* the request once the store has run query q and its result is kept
QueryDone(request, q) ==
  LET id == request.challengeId
      done == [request EXCEPT !.pending = @ \ {q}]
  IN IF q = "findUnique" THEN [done EXCEPT !.challenge = id \in DOMAIN challenges]
     ELSE IF q = "findMany" THEN [done EXCEPT !.participants = RowsOfChallenge(participants, id)]
     ELSE IF q = "count" THEN [done EXCEPT !.completedCount = CountCompleted(participants, id)]
     ELSE [done EXCEPT !.averageProgress = AverageProgress(participants, id)]

\* participants.reduce((acc, p) => { acc[p.status] = (acc[p.status] || 0) + 1 ... }, {})
StatusBreakdown(rows) ==
  [s \in {rows[p].status : p \in DOMAIN rows} |->
     Cardinality({p \in DOMAIN rows : rows[p].status = s})]

MillisPerDay == 1000 * 60 * 60 * 24

\* Math.ceil(a / b)
Ceil(a, b) == -((-a) \div b)

\* { userId, days } of the rows that have a completedAt
Completions(rows) ==
  {[userId |-> rows[p].userId,
    days |-> Ceil(rows[p].completedAt - rows[p].joinedAt, MillisPerDay)] :
     p \in {q \in DOMAIN rows : rows[q].completedAt # Null}}

\* variant: the sort is descending
FastestCompletions_Slowest(rows) ==
  {c \in Completions(rows) : \A d \in Completions(rows) : c.days >= d.days}

\* .sort((a, b) => a.days - b.days)[0]: the entries that may come first, the order of
\* those that tie being the order in which findMany delivered the rows
FastestCompletions(rows) ==
  {c \in Completions(rows) : \A d \in Completions(rows) : c.days <= d.days}

\* the statistics object of the response
Statistics(request, fastestCompletion) ==
  LET totalParticipants == Cardinality(DOMAIN request.participants)
  IN [totalParticipants |-> totalParticipants,
      completedCount |-> request.completedCount,
      completionRate |-> IF totalParticipants > 0
                         THEN ToFixed2(request.completedCount * 100, totalParticipants)
                         ELSE 0,
      averageProgress |-> request.averageProgress,
      statusBreakdown |-> StatusBreakdown(request.participants),
      fastestCompletion |-> fastestCompletion]

\* the code after the Promise.all
StatisticsResponse(r, request) ==
  IF ~request.challenge
  THEN Respond(r, request, 404, "Challenge not found")
  ELSE /\ \E fastestCompletion \in
              IF Completions(request.participants) = {} THEN {NoCompletion}
              ELSE FastestCompletions(request.participants) :
            res' = [Echo(request, 200, "") EXCEPT
                      !.statistics = Statistics(request, fastestCompletion)]
       /\ pc' = [pc EXCEPT ![r] = "idle"]
       /\ req' = [req EXCEPT ![r] = NoRequest]

\* the handler up to the Promise.all, and the query the store runs first
GetChallengeStatistics(r, challengeId, q) ==
  /\ pc[r] = "idle"
  /\ q \in StatisticsQueries
  /\ Await(r, "getChallengeStatistics_all",
           QueryDone([Request("getChallengeStatistics", 0, challengeId, 0) EXCEPT
                        !.pending = StatisticsQueries], q))
  /\ UNCHANGED <<store, now>>

\* the store runs one more of the queries; after the last one the handler answers
GetChallengeStatisticsQuery(r, q) ==
  /\ pc[r] = "getChallengeStatistics_all"
  /\ q \in req[r].pending
  /\ LET request == QueryDone(req[r], q)
     IN IF request.pending = {}
        THEN StatisticsResponse(r, request)
        ELSE Await(r, "getChallengeStatistics_all", request)
  /\ UNCHANGED <<store, now>>

Init ==
  /\ users = SeedUsers \cup Organisers
  /\ \E t \in Targets :
       challenges = [c \in SeedChallenges |->
                       [title |-> "run",
                        targetProgress |-> IF c \in ApiChallenges THEN DefaultTargetProgress ELSE t,
                        creatorId |-> IF c \in ApiChallenges
                                      THEN CHOOSE u \in SeedUsers : TRUE
                                      ELSE CHOOSE u \in Organisers : TRUE]]
  /\ nextChallengeId = Cardinality(SeedChallenges) + 1
  /\ participants = << >>
  /\ nextParticipantId = 1
  /\ progressLogs = << >>
  /\ nextLogId = 1
  /\ now = 1
  /\ pc = [r \in Requests |-> "idle"]
  /\ req = [r \in Requests |-> NoRequest]
  /\ res = NoResponse

(***************************************************************************)
(* Requests served one after the other by one task: joins of the challenge *)
(* whose target varies, and progress updates and status updates with every *)
(* input of the bounded sets.                                              *)
(***************************************************************************)
NextSeq ==
  \/ \E challengeId \in SeededChallenges, userId \in SeedUsers :
        CreateParticipant(1, challengeId, userId)
  \/ CreateParticipantCreate(1)
  \/ \E id \in ParticipantIdInputs, progressDelta \in DeltaInputs,
        description \in Descriptions : UpdateProgress(1, id, progressDelta, description)
  \/ \E failure \in StoreFailures : UpdateProgressTransaction(1, failure)
  \/ \E id \in ParticipantIdInputs, status \in StatusInputs :
        UpdateParticipantStatus(1, id, status)

SpecSeq == Init /\ [][NextSeq]_vars

(***************************************************************************)
(* Joins and progress updates only, one after the other.                   *)
(***************************************************************************)
NextRecord ==
  \/ \E challengeId \in SeedChallenges, userId \in SeedUsers :
        CreateParticipant(1, challengeId, userId)
  \/ CreateParticipantCreate(1)
  \/ \E id \in ParticipantIdInputs, d \in Deltas :
        UpdateProgress(1, id, [defined |-> TRUE, val |-> d], "ran 5k")
  \/ \E failure \in StoreFailures : UpdateProgressTransaction(1, failure)

SpecRecord == Init /\ [][NextRecord]_vars

(***************************************************************************)
(* Two request tasks in flight together: joins of the challenge whose      *)
(* target varies, progress updates with well-formed bodies and participant *)
(* deletions.                                                              *)
(***************************************************************************)
NextRace ==
  \/ \E r \in Requests, challengeId \in SeededChallenges, userId \in SeedUsers :
        CreateParticipant(r, challengeId, userId)
  \/ \E r \in Requests : CreateParticipantCreate(r)
  \/ \E r \in Requests, id \in ParticipantIdInputs, d \in Deltas :
        UpdateProgress(r, id, [defined |-> TRUE, val |-> d], "ran 5k")
  \/ \E r \in Requests, failure \in StoreFailures : UpdateProgressTransaction(r, failure)
  \/ \E r \in Requests, id \in ParticipantIdInputs : DeleteParticipant(r, id)

SpecRace == Init /\ [][NextRace]_vars

(***************************************************************************)
(* Two request tasks in flight together: the operations on the rows and    *)
(* their references (join, move, delete participant, challenge or user).   *)
(***************************************************************************)
NextJoin ==
  \/ \E r \in Requests, challengeId \in ChallengeIdInputs, userId \in UserIdInputs :
        CreateParticipant(r, challengeId, userId)
  \/ \E r \in Requests : CreateParticipantCreate(r)
  \/ \E r \in Requests, id \in ParticipantIdInputs, challengeId \in ChallengeIdInputs,
        userId \in UserIdInputs : UpdateParticipant(r, id, challengeId, userId)
  \/ \E r \in Requests, id \in ParticipantIdInputs : DeleteParticipant(r, id)
  \/ \E r \in Requests, id \in SeedChallenges : DeleteChallenge(r, id)
  \/ \E r \in Requests, id \in SeedUsers : DeleteUser(r, id)
  \/ \E r \in Requests, elsewhere \in BOOLEAN : DeleteUserDelete(r, elsewhere)

SpecJoin == Init /\ [][NextJoin]_vars

(***************************************************************************)
(* Two request tasks in flight together: joins and progress updates, which *)
(* fill the ChallengeParticipant and ProgressLog tables, and the deletions *)
(* of challenges and users.                                                *)
(***************************************************************************)
NextDelete ==
  \/ \E r \in Requests, challengeId \in SeedChallenges, userId \in SeedUsers :
        CreateParticipant(r, challengeId, userId)
  \/ \E r \in Requests : CreateParticipantCreate(r)
  \/ \E r \in Requests, id \in ParticipantIdInputs :
        UpdateProgress(r, id, [defined |-> TRUE, val |-> 50], "ran 5k")
  \/ \E r \in Requests, failure \in StoreFailures : UpdateProgressTransaction(r, failure)
  \/ \E r \in Requests, id \in SeedChallenges : DeleteChallenge(r, id)
  \/ \E r \in Requests, id \in SeedUsers : DeleteUser(r, id)
  \/ \E r \in Requests, elsewhere \in BOOLEAN : DeleteUserDelete(r, elsewhere)

SpecDelete == Init /\ [][NextDelete]_vars

(***************************************************************************)
(* Requests served one after the other by one task: joins of the two       *)
(* challenges by two users, progress updates and the leaderboard of the    *)
(* challenge whose target varies.                                          *)
(***************************************************************************)
NextBoard ==
  \/ \E challengeId \in SeedChallenges, userId \in SeedUsers \cup Organisers :
        CreateParticipant(1, challengeId, userId)
  \/ CreateParticipantCreate(1)
  \/ \E id \in ParticipantIdInputs :
        UpdateProgress(1, id, [defined |-> TRUE, val |-> 50], "ran 5k")
  \/ UpdateProgressTransaction(1, "none")
  \/ \E challengeId \in SeededChallenges, limit \in LimitInputs,
        status \in StatusQueryInputs :
        GetChallengeLeaderboard(1, challengeId, limit, status)

SpecBoard == Init /\ [][NextBoard]_vars

(***************************************************************************)
(* Requests served one after the other by one task: challenges created and *)
(* updated through the API, joins of those challenges and progress updates.*)
(***************************************************************************)
NextChallenge ==
  \/ \E title \in Titles, user \in SeedUsers : CreateChallenge(1, title, user)
  \/ \E id \in ChallengeIdParams, user \in SeedUsers \cup Organisers, admin \in BOOLEAN :
        UpdateChallenge(1, id, "swim", user, admin)
  \/ UpdateChallengeUpdate(1)
  \/ \E challengeId \in ChallengeIdParams, userId \in SeedUsers :
        CreateParticipant(1, challengeId, userId)
  \/ CreateParticipantCreate(1)
  \/ \E id \in ParticipantIdInputs :
        UpdateProgress(1, id, [defined |-> TRUE, val |-> 50], "ran 5k")
  \/ UpdateProgressTransaction(1, "none")

SpecChallenge == Init /\ [][NextChallenge]_vars

(***************************************************************************)
(* Requests served one after the other by one task: joins of the challenge *)
(* whose target varies by two users, progress updates, status updates and  *)
(* the aggregate views.                                                    *)
(***************************************************************************)
NextStats ==
  \/ \E challengeId \in SeededChallenges, userId \in SeedUsers \cup Organisers :
        CreateParticipant(1, challengeId, userId)
  \/ CreateParticipantCreate(1)
  \/ \E id \in ParticipantIdInputs :
        UpdateProgress(1, id, [defined |-> TRUE, val |-> 50], "ran 5k")
  \/ UpdateProgressTransaction(1, "none")
  \/ \E id \in ParticipantIdInputs, status \in {"PAUSED", "COMPLETED"} :
        UpdateParticipantStatus(1, id, status)
  \/ \E userId \in SeedUsers : GetUserAllProgress(1, userId)
  \/ \E challengeId \in StatisticsIdParams, q \in StatisticsQueries :
        GetChallengeStatistics(1, challengeId, q)
  \/ \E q \in StatisticsQueries : GetChallengeStatisticsQuery(1, q)

SpecStats == Init /\ [][NextStats]_vars

(***************************************************************************)
(* The statistics of a challenge read by task 2 while task 1 joins,        *)
(* records progress, sets a status and removes a participation: the four   *)
(* queries of Promise.all are four statements, each reading the store at   *)
(* its own time.                                                           *)
(***************************************************************************)
NextStatsRace ==
  \/ \E challengeId \in SeededChallenges, userId \in SeedUsers :
        CreateParticipant(1, challengeId, userId)
  \/ CreateParticipantCreate(1)
  \/ \E id \in ParticipantIdInputs :
        UpdateProgress(1, id, [defined |-> TRUE, val |-> 50], "ran 5k")
  \/ UpdateProgressTransaction(1, "none")
  \/ \E id \in ParticipantIdInputs : UpdateParticipantStatus(1, id, "COMPLETED")
  \/ \E id \in ParticipantIdInputs : DeleteParticipant(1, id)
  \/ \E challengeId \in SeededChallenges, q \in StatisticsQueries :
        GetChallengeStatistics(2, challengeId, q)
  \/ \E q \in StatisticsQueries : GetChallengeStatisticsQuery(2, q)

SpecStatsRace == Init /\ [][NextStatsRace]_vars

(***************************************************************************)
(* Vocabulary of the properties.                                           *)
(***************************************************************************)

\* task r takes the transaction step of updateProgress
TransactionStep(r) == pc[r] = "updateProgress_transaction" /\ pc'[r] = "idle"

\* task r takes the insert step of createParticipant
CreateStep(r) == pc[r] = "createParticipant_create" /\ pc'[r] = "idle"

\* a handler answers without having suspended: no task moves, a response is sent
AnsweredAtOnce(handler) == pc' = pc /\ res' # res /\ res'.handler = handler

LogsOf(logs, id) == {l \in DOMAIN logs : logs[l].participantId = id}

RECURSIVE SumOfDeltas(_, _)
SumOfDeltas(logs, ids) ==
  IF ids = {} THEN 0
  ELSE LET l == CHOOSE k \in ids : TRUE
       IN logs[l].progressDelta + SumOfDeltas(logs, ids \ {l})

(***************************************************************************)
(* C1.  Progress updates on one participant, served one after the other    *)
(* from progress 0: once the deltas recorded sum to the challenge's target *)
(* the participant is COMPLETED with completedAt set, and from then on     *)
(* completedAt is not written again and every further update is rejected   *)
(* (row and logs stay as they are).                                        *)
(***************************************************************************)
C1_SumReachesTargetCompletes ==
  [][\A id \in DOMAIN participants' :
       /\ SumOfDeltas(progressLogs', LogsOf(progressLogs', id))
             >= TargetProgress(challenges'[participants'[id].challengeId])
          => /\ participants'[id].status = "COMPLETED"
             /\ participants'[id].completedAt # Null
       /\ (id \in DOMAIN participants /\ participants[id].status = "COMPLETED")
          => /\ participants'[id] = participants[id]
             /\ LogsOf(progressLogs', id) = LogsOf(progressLogs, id)]_vars

(***************************************************************************)
(* C2.  The transaction step of updateProgress is all-or-nothing: either   *)
(* it answers 200 and both the participant update and exactly one new      *)
(* ProgressLog row of that participant are in the store, or it answers 500 *)
(* and neither the participant rows nor the log rows have changed.         *)
(***************************************************************************)
C2_ProgressAndLogTogether ==
  [][\A r \in Requests :
       TransactionStep(r) =>
         LET id == req[r].id
             added == DOMAIN progressLogs' \ DOMAIN progressLogs
         IN \/ /\ res'.status = 200
               /\ id \in DOMAIN participants'
               /\ participants'[id].progress = req[r].newProgress
               /\ Cardinality(added) = 1
               /\ \A l \in added : progressLogs'[l].participantId = id
            \/ /\ res'.status = 500
               /\ participants' = participants
               /\ progressLogs' = progressLogs]_vars

\* the second write of a transaction failed and the request was answered 500
C2_Witness ==
  /\ res.handler = "updateProgress"
  /\ res.status = 500
  /\ res.message = "Store failure in create"

(***************************************************************************)
(* C3.  A successful updateProgress adds exactly one ProgressLog row, of   *)
(* the participant of the request, whose progressDelta is the requested    *)
(* delta (not the clamped change of progress); every other log row stays.  *)
(***************************************************************************)
C3_OneLogWithRequestedDelta ==
  [][\A r \in Requests :
       (TransactionStep(r) /\ res'.status = 200) =>
         LET added == DOMAIN progressLogs' \ DOMAIN progressLogs
         IN /\ Cardinality(added) = 1
            /\ \A l \in added :
                 /\ progressLogs'[l].participantId = req[r].id
                 /\ progressLogs'[l].progressDelta = req[r].progressDelta.val
            /\ \A l \in DOMAIN progressLogs :
                 l \in DOMAIN progressLogs' /\ progressLogs'[l] = progressLogs[l]]_vars

\* a delta of 120 was logged as 120 although progress was clamped to 100
C3_Witness ==
  \E l \in DOMAIN progressLogs :
    /\ progressLogs[l].progressDelta = 120
    /\ progressLogs[l].participantId \in DOMAIN participants
    /\ participants[progressLogs[l].participantId].progress = ProgressCap
    /\ Cardinality(LogsOf(progressLogs, progressLogs[l].participantId)) = 1

(***************************************************************************)
(* C4.  An updateProgress with a well-formed body that finds the           *)
(* participant's stored status COMPLETED never reaches the transaction: it *)
(* is answered 400 'Challenge already completed' and the store (rows and   *)
(* logs) is left as it was.                                                *)
(***************************************************************************)
C4_CompletedRejectsProgress ==
  [][\A id \in DOMAIN participants :
       participants[id].status = "COMPLETED" =>
         /\ \A r \in Requests :
              ~(pc[r] = "idle" /\ pc'[r] = "updateProgress_transaction" /\ req'[r].id = id)
         /\ ( /\ AnsweredAtOnce("updateProgress")
              /\ res'.id = id
              /\ res'.message # "progressDelta and description are required" )
            => /\ res'.status = 400
               /\ res'.message = "Challenge already completed"
               /\ participants' = participants
               /\ progressLogs' = progressLogs]_vars

\* an update was rejected on a participant completed below the cap of 100
C4_Witness ==
  /\ res.handler = "updateProgress"
  /\ res.message = "Challenge already completed"
  /\ res.id \in DOMAIN participants
  /\ participants[res.id].status = "COMPLETED"
  /\ participants[res.id].progress < ProgressCap

(***************************************************************************)
(* C5.  No lost update: a committed updateProgress adds its delta to the   *)
(* progress stored when it commits (capped at 100), so two calls that      *)
(* overlap end where the same two calls made one after the other end.      *)
(***************************************************************************)
C5_NoLostUpdate ==
  [][\A r \in Requests :
       (TransactionStep(r) /\ res'.status = 200) =>
         participants'[req[r].id].progress =
           Min(participants[req[r].id].progress + req[r].progressDelta.val, ProgressCap)]_vars

(***************************************************************************)
(* C6.  No updateProgress transaction commits on a participant whose       *)
(* stored status is COMPLETED at the commit.                               *)
(***************************************************************************)
C6_NoCommitOnCompleted ==
  [][\A r \in Requests :
       (TransactionStep(r) /\ res'.status = 200) =>
         participants[req[r].id].status # "COMPLETED"]_vars

(***************************************************************************)
(* C7.  There is at most one participant row per (challengeId, userId):    *)
(* the insert of a join for a pair that has a row answers 400 'User        *)
(* already joined this challenge.' and adds no row, and an                 *)
(* updateParticipant that would move a row onto a pair held by another row *)
(* is answered 400 and changes no row.                                     *)
(***************************************************************************)
C7_OneRowPerPair ==
  [][/\ \A p, q \in DOMAIN participants' :
          ( /\ participants'[p].challengeId = participants'[q].challengeId
            /\ participants'[p].userId = participants'[q].userId ) => p = q
     /\ \A r \in Requests :
          ( /\ CreateStep(r)
            /\ \E p \in DOMAIN participants :
                 /\ participants[p].challengeId = req[r].challengeId
                 /\ participants[p].userId = req[r].userId )
          => /\ res'.status = 400
             /\ res'.message = "User already joined this challenge."
             /\ participants' = participants
     /\ ( /\ AnsweredAtOnce("updateParticipant")
          /\ res'.id \in DOMAIN participants
          /\ LET c == IF res'.challengeId = 0 THEN participants[res'.id].challengeId
                      ELSE res'.challengeId
                 u == IF res'.userId = 0 THEN participants[res'.id].userId
                      ELSE res'.userId
             IN \E p \in DOMAIN participants \ {res'.id} :
                  participants[p].challengeId = c /\ participants[p].userId = u )
        => /\ res'.status = 400
           /\ participants' = participants]_vars

\* a join was refused as a duplicate while two rows exist
C7_Witness ==
  /\ res.handler = "createParticipant"
  /\ res.status = 400
  /\ res.message = "User already joined this challenge."
  /\ Cardinality(DOMAIN participants) = 2

(***************************************************************************)
(* C8.  The insert of a join whose challenge and user exist and whose pair *)
(* has no row answers 201 and adds exactly one row, for that pair, with    *)
(* progress 0, status ACTIVE and completedAt null; the other rows and the  *)
(* logs are unchanged.                                                     *)
(***************************************************************************)
C8_JoinCreatesOneRow ==
  [][\A r \in Requests :
       ( /\ CreateStep(r)
         /\ req[r].challengeId \in DOMAIN challenges
         /\ req[r].userId \in users
         /\ ~ \E p \in DOMAIN participants :
                /\ participants[p].challengeId = req[r].challengeId
                /\ participants[p].userId = req[r].userId )
       => LET added == DOMAIN participants' \ DOMAIN participants
          IN /\ res'.status = 201
             /\ Cardinality(added) = 1
             /\ \A p \in added :
                  /\ participants'[p].challengeId = req[r].challengeId
                  /\ participants'[p].userId = req[r].userId
                  /\ participants'[p].progress = 0
                  /\ participants'[p].status = "ACTIVE"
                  /\ participants'[p].completedAt = Null
             /\ \A p \in DOMAIN participants :
                  p \in DOMAIN participants' /\ participants'[p] = participants[p]
             /\ progressLogs' = progressLogs]_vars

\* a join was answered 201 and its row is the second row of the table
C8_Witness ==
  /\ res.handler = "createParticipant"
  /\ res.status = 201
  /\ Cardinality(DOMAIN participants) = 2

(***************************************************************************)
(* C9.  Every participant row references an existing challenge and an      *)
(* existing user: a join naming a challenge or a user that has no row -    *)
(* at the existence check or, the challenge having been deleted since, at  *)
(* the insert - is answered 404 and adds no row.                           *)
(***************************************************************************)
C9_JoinNeedsExistingRows ==
  [][/\ \A p \in DOMAIN participants' :
          /\ participants'[p].challengeId \in DOMAIN challenges'
          /\ participants'[p].userId \in users'
     /\ \A r \in Requests :
          ( /\ CreateStep(r)
            /\ (req[r].challengeId \notin DOMAIN challenges \/ req[r].userId \notin users) )
          => /\ res'.status = 404
             /\ participants' = participants
     /\ \A r \in Requests :
          (pc[r] = "idle" /\ pc'[r] = "createParticipant_create")
          => req'[r].challengeId \in DOMAIN challenges
     /\ ( /\ AnsweredAtOnce("createParticipant")
          /\ res'.challengeId # 0 /\ res'.userId # 0
          /\ res'.challengeId \notin DOMAIN challenges )
        => /\ res'.status = 404
           /\ participants' = participants]_vars

\* the challenge was deleted between the existence check and the insert of a join
C9_Witness ==
  /\ res.handler = "createParticipant"
  /\ res.status = 404
  /\ res.message = "User or Challenge not found"
  /\ res.userId \in users
  /\ res.challengeId \notin DOMAIN challenges

(***************************************************************************)
(* C10.  A participant's status is COMPLETED exactly when its completedAt  *)
(* is non-null.                                                            *)
(***************************************************************************)
C10_CompletedIffCompletedAt ==
  \A id \in DOMAIN participants :
    participants[id].status = "COMPLETED" <=> participants[id].completedAt # Null

(***************************************************************************)
(* C11.  completedAt of a participant row is written once: it changes only *)
(* from null to an instant, in a step that takes the status to COMPLETED,  *)
(* and once set it is neither cleared nor replaced by another instant.     *)
(***************************************************************************)
C11_CompletedAtWrittenOnce ==
  [][\A id \in DOMAIN participants \cap DOMAIN participants' :
       /\ participants[id].completedAt # Null
          => participants'[id].completedAt = participants[id].completedAt
       /\ participants'[id].completedAt # participants[id].completedAt
          => /\ participants[id].status # "COMPLETED"
             /\ participants'[id].status = "COMPLETED"]_vars

(***************************************************************************)
(* C12.  In every reachable state the progress of every participant row is *)
(* at least 0, the deltas of the progress updates being signed.            *)
(***************************************************************************)
C12_ProgressAtLeastZero ==
  \A id \in DOMAIN participants : participants[id].progress >= 0

(***************************************************************************)
(* C13.  In every reachable state the progress of every participant row is *)
(* at most 100, whatever the target of its challenge and the deltas        *)
(* recorded.                                                               *)
(***************************************************************************)
C13_ProgressAtMostCap ==
  \A id \in DOMAIN participants : participants[id].progress <= 100

\* a row is held at 100 below its challenge's target of 150 by a delta of 120
C13_Witness ==
  \E id \in DOMAIN participants :
    /\ participants[id].progress = 100
    /\ challenges[participants[id].challengeId].targetProgress = 150
    /\ \E l \in LogsOf(progressLogs, id) : progressLogs[l].progressDelta = 120

(***************************************************************************)
(* C14.  ProgressLog is append-only: in every step, each log row of a      *)
(* participant that exists before and after the step is still there and    *)
(* unchanged, so the logs of a participant only grow while it exists.      *)
(***************************************************************************)
C14_LogsAppendOnly ==
  [][\A id \in DOMAIN participants \cap DOMAIN participants' :
       \A l \in LogsOf(progressLogs, id) :
         l \in DOMAIN progressLogs' /\ progressLogs'[l] = progressLogs[l]]_vars

\* a second log row was appended to a participant that had one
C14_Witness ==
  /\ res.handler = "updateProgress"
  /\ res.status = 200
  /\ res.id \in DOMAIN participants
  /\ Cardinality(LogsOf(progressLogs, res.id)) >= 2

(***************************************************************************)
(* C19.  No orphan logs: in every reachable state every ProgressLog row    *)
(* references an existing participant row, the deletion of a participant   *)
(* having removed all of its log rows.                                     *)
(***************************************************************************)
C19_NoOrphanLogs ==
  \A l \in DOMAIN progressLogs : progressLogs[l].participantId \in DOMAIN participants

\* a participant that had log rows was deleted
C19_Witness ==
  /\ res.handler = "deleteParticipant"
  /\ res.status = 200
  /\ res.id \notin DOMAIN participants
  /\ nextLogId > 1
  /\ DOMAIN progressLogs = {}

(***************************************************************************)
(* C15.  An updateParticipantStatus whose body status is not one of        *)
(* ACTIVE, COMPLETED, DROPPED, PAUSED (a missing status included) is       *)
(* answered 400 with the message naming the four allowed values, and no    *)
(* participant row changes.                                                *)
(***************************************************************************)
C15_InvalidStatusRejected ==
  [][( /\ AnsweredAtOnce("updateParticipantStatus")
       /\ res'.requested \notin {"ACTIVE", "COMPLETED", "DROPPED", "PAUSED"} )
     => /\ res'.status = 400
        /\ res'.message =
              "Invalid status. Must be one of: ACTIVE, COMPLETED, DROPPED, PAUSED"
        /\ participants' = participants
        /\ progressLogs' = progressLogs]_vars

\* a request without a status, naming an existing participant, was rejected
C15_Witness ==
  /\ res.handler = "updateParticipantStatus"
  /\ res.requested = ""
  /\ res.status = 400
  /\ res.id \in DOMAIN participants

(***************************************************************************)
(* C16.  An updateParticipantStatus naming an existing participant and one *)
(* of the four statuses is answered 200 whatever the status the row has    *)
(* (COMPLETED to ACTIVE included) and changes only the status field of     *)
(* that row: its progress, completedAt and joinedAt, the other rows and    *)
(* the logs are unchanged.                                                 *)
(***************************************************************************)
C16_StatusUpdateChangesOnlyStatus ==
  [][( /\ AnsweredAtOnce("updateParticipantStatus")
       /\ res'.requested \in ParticipantStatus
       /\ res'.id \in DOMAIN participants )
     => /\ res'.status = 200
        /\ participants' = [participants EXCEPT ![res'.id].status = res'.requested]
        /\ progressLogs' = progressLogs]_vars

\* a row completed by its progress was put back to ACTIVE and kept its completedAt
C16_Witness ==
  /\ res.handler = "updateParticipantStatus"
  /\ res.status = 200
  /\ res.requested = "ACTIVE"
  /\ res.id \in DOMAIN participants
  /\ participants[res.id].status = "ACTIVE"
  /\ participants[res.id].completedAt # Null
  /\ LogsOf(progressLogs, res.id) # {}

\* the participant rows of challenge id
ParticipantsOf(rows, id) == {p \in DOMAIN rows : rows[p].challengeId = id}

(***************************************************************************)
(* C17, as claimed.  A deleteChallenge naming a challenge that has         *)
(* participant rows is answered 200 and cascades: afterwards the           *)
(* challenge, its participant rows and their log rows are gone.            *)
(***************************************************************************)
C17_DeleteChallengeCascades ==
  [][( /\ AnsweredAtOnce("deleteChallenge")
       /\ ParticipantsOf(participants, res'.id) # {} )
     => /\ res'.status = 200
        /\ res'.id \notin DOMAIN challenges'
        /\ ParticipantsOf(participants', res'.id) = {}
        /\ \A p \in ParticipantsOf(participants, res'.id) :
             LogsOf(progressLogs', p) = {}]_vars

(***************************************************************************)
(* C17, amended.  A deleteChallenge naming a challenge that has            *)
(* participant rows is answered 500 'Failed to delete challenge' and       *)
(* deletes nothing: the challenge, the participant rows and the log rows   *)
(* are as they were.                                                       *)
(***************************************************************************)
C17_DeleteChallengeRestricted ==
  [][( /\ AnsweredAtOnce("deleteChallenge")
       /\ ParticipantsOf(participants, res'.id) # {} )
     => /\ res'.status = 500
        /\ res'.message = "Failed to delete challenge"
        /\ challenges' = challenges
        /\ participants' = participants
        /\ progressLogs' = progressLogs]_vars

\* the deletion of a challenge whose participant has log rows was refused
C17_Witness ==
  /\ res.handler = "deleteChallenge"
  /\ res.status = 500
  /\ res.id \in DOMAIN challenges
  /\ \E p \in ParticipantsOf(participants, res.id) : LogsOf(progressLogs, p) # {}

\* task r takes the delete step of deleteUser
DeleteStep(r) == pc[r] = "deleteUser_delete" /\ pc'[r] = "idle"

(***************************************************************************)
(* C18.  The delete of a deleteUser naming a user that has a participant   *)
(* row fails (500 'Server error'), and the existence check before it       *)
(* writes nothing: the user, the participant rows and the log rows are as  *)
(* they were.                                                              *)
(***************************************************************************)
C18_DeleteUserWithParticipantFails ==
  [][\A r \in Requests :
       /\ ( /\ DeleteStep(r)
            /\ \E p \in DOMAIN participants : participants[p].userId = req[r].id )
          => /\ res'.status = 500
             /\ res'.message = "Server error"
             /\ users' = users
             /\ participants' = participants
             /\ progressLogs' = progressLogs
       /\ (pc[r] = "idle" /\ pc'[r] = "deleteUser_delete") => UNCHANGED store]_vars

\* the deletion of a user was refused on account of a participant row with log rows:
\* the user has created none of the challenges left
C18_Witness ==
  /\ res.handler = "deleteUser"
  /\ res.status = 500
  /\ res.id \in users
  /\ \A c \in DOMAIN challenges : challenges[c].creatorId # res.id
  /\ \E p \in DOMAIN participants :
       participants[p].userId = res.id /\ LogsOf(progressLogs, p) # {}

\* instant x is not later than instant y, a row never completed (null) coming after all
NotLater(x, y) == y = Null \/ (x # Null /\ x <= y)

(***************************************************************************)
(* C20.  The leaderboard getChallengeLeaderboard answers holds only        *)
(* participants of the challenge asked for, and only of the status asked   *)
(* for when one is given; it has at most `limit` entries, ranked 1..n in   *)
(* list order; and of two entries the one listed first has the greater     *)
(* progress, or the same progress and a completedAt that is not later.     *)
(***************************************************************************)
C20_LeaderboardFilteredRankedOrdered ==
  [][( /\ AnsweredAtOnce("getChallengeLeaderboard")
       /\ res'.status = 200 )
     => LET board == res'.leaderboard
        IN /\ \A i \in 1..Len(board) :
                /\ board[i].participantId \in DOMAIN participants
                /\ participants[board[i].participantId].challengeId = res'.challengeId
                /\ res'.requested = "completed" => board[i].status = "COMPLETED"
                /\ board[i].rank = i
           /\ Len(board) <= res'.limit
           /\ \A i, j \in 1..Len(board) :
                i < j =>
                  \/ board[i].progress > board[j].progress
                  \/ /\ board[i].progress = board[j].progress
                     /\ NotLater(board[i].completedAt, board[j].completedAt)]_vars

\* two entries tie on progress and the one that completed first is ranked first
C20_Witness ==
  /\ res.handler = "getChallengeLeaderboard"
  /\ res.status = 200
  /\ Len(res.leaderboard) = 2
  /\ res.leaderboard[1].progress = res.leaderboard[2].progress
  /\ res.leaderboard[1].completedAt # Null
  /\ res.leaderboard[1].completedAt < res.leaderboard[2].completedAt

(***************************************************************************)
(* C23.  An updateProgress rejected before the write - the body lacks      *)
(* progressDelta or has no (or an empty) description, or the id names no   *)
(* participant row - leaves every participant row and every ProgressLog    *)
(* row as it was, and no transaction is started for it.                    *)
(***************************************************************************)
C23_RejectedProgressWritesNothing ==
  [][( /\ AnsweredAtOnce("updateProgress")
       /\ res'.message \in {"progressDelta and description are required",
                            "Participant not found"} )
     => /\ res'.status \in {400, 404}
        /\ res'.message = "Participant not found" => res'.id \notin DOMAIN participants
        /\ participants' = participants
        /\ progressLogs' = progressLogs
        /\ nextLogId' = nextLogId]_vars

\* an update naming no row was rejected while another row and its log rows exist
C23_Witness ==
  /\ res.handler = "updateProgress"
  /\ res.status = 404
  /\ res.id \notin DOMAIN participants
  /\ \E p \in DOMAIN participants : LogsOf(progressLogs, p) # {}

(***************************************************************************)
(* C24.  A successful updateProgress on a participant with progress p and  *)
(* status s, in a challenge of target t (100 when t is 0), stores the      *)
(* progress min(p + delta, 100); when that is at least t it stores status  *)
(* COMPLETED and completedAt = now and answers 'Congratulations! Challenge *)
(* completed!', otherwise it leaves the status s and answers 'Progress     *)
(* updated'.                                                               *)
(***************************************************************************)
C24_ProgressStep ==
  [][\A r \in Requests :
       (TransactionStep(r) /\ res'.status = 200) =>
         LET id == req[r].id
             p == participants[id].progress
             s == participants[id].status
             stored == challenges[participants[id].challengeId].targetProgress
             t == IF stored = 0 THEN 100 ELSE stored
             sum == p + req[r].progressDelta.val
             v == IF sum <= 100 THEN sum ELSE 100
         IN /\ participants'[id].progress = v
            /\ IF v >= t
               THEN /\ participants'[id].status = "COMPLETED"
                    /\ participants'[id].completedAt = now
                    /\ res'.message = "Congratulations! Challenge completed!"
               ELSE /\ participants'[id].status = s
                    /\ res'.message = "Progress updated"]_vars

\* an update that reached a target of 50 exactly completed the participant
C24_Witness ==
  /\ res.handler = "updateProgress"
  /\ res.message = "Congratulations! Challenge completed!"
  /\ res.id \in DOMAIN participants
  /\ participants[res.id].progress = 50
  /\ participants[res.id].status = "COMPLETED"
  /\ participants[res.id].completedAt # Null

(***************************************************************************)
(* C25.  In a challenge whose targetProgress is above 100 no updateProgress*)
(* completes a participant: a committed update leaves it not COMPLETED,    *)
(* and a step that takes such a participant to COMPLETED is an             *)
(* updateParticipantStatus asking for COMPLETED.                           *)
(***************************************************************************)
C25_TargetAboveCapNeverCompletes ==
  [][/\ \A r \in Requests :
          ( /\ TransactionStep(r)
            /\ res'.status = 200
            /\ challenges[participants[req[r].id].challengeId].targetProgress > 100 )
          => /\ participants'[req[r].id].status # "COMPLETED"
             /\ participants'[req[r].id].completedAt = Null
             /\ res'.message = "Progress updated"
     /\ \A id \in DOMAIN participants \cap DOMAIN participants' :
          ( /\ challenges[participants[id].challengeId].targetProgress > 100
            /\ participants[id].status # "COMPLETED"
            /\ participants'[id].status = "COMPLETED" )
          => /\ AnsweredAtOnce("updateParticipantStatus")
             /\ res'.id = id
             /\ res'.requested = "COMPLETED"]_vars

\* a participant stands at 100 in a challenge of target 150 and is still ACTIVE
C25_Witness ==
  /\ res.handler = "updateProgress"
  /\ res.status = 200
  /\ res.message = "Progress updated"
  /\ res.id \in DOMAIN participants
  /\ participants[res.id].progress = 100
  /\ participants[res.id].status = "ACTIVE"
  /\ challenges[participants[res.id].challengeId].targetProgress = 150

\* the progress got by replaying the log rows `ids` in creation order from p
RECURSIVE Replay(_, _, _)
Replay(logs, ids, p) ==
  IF ids = {} THEN p
  ELSE LET first == CHOOSE l \in ids : \A k \in ids : l <= k
           sum == p + logs[first].progressDelta
       IN Replay(logs, ids \ {first}, IF sum <= 100 THEN sum ELSE 100)

(***************************************************************************)
(* C26.  With the requests served one after the other, the stored progress *)
(* of every participant is what replaying its ProgressLog rows in creation *)
(* order gives, from 0 and with the step p -> min(p + progressDelta, 100). *)
(***************************************************************************)
C26_ProgressIsReplayOfLogs ==
  \A id \in DOMAIN participants :
    participants[id].progress = Replay(progressLogs, LogsOf(progressLogs, id), 0)

\* the cap took effect in the middle of the log: the deltas sum to 70, the progress is 50
C26_Witness ==
  \E id \in DOMAIN participants :
    /\ participants[id].progress = 50
    /\ Cardinality(LogsOf(progressLogs, id)) = 2
    /\ SumOfDeltas(progressLogs, LogsOf(progressLogs, id)) = 70

(***************************************************************************)
(* C27.  Only COMPLETED blocks updateProgress: an update is answered       *)
(* 'Challenge already completed' only for a row whose status is COMPLETED, *)
(* and an update committed on a DROPPED or PAUSED row leaves that status   *)
(* while the new progress is below the target and stores COMPLETED when    *)
(* it reaches the target.                                                  *)
(***************************************************************************)
C27_OnlyCompletedBlocks ==
  [][/\ ( /\ AnsweredAtOnce("updateProgress")
          /\ res'.message = "Challenge already completed" )
        => /\ res'.id \in DOMAIN participants
           /\ participants[res'.id].status = "COMPLETED"
     /\ \A r \in Requests :
          ( /\ TransactionStep(r)
            /\ res'.status = 200
            /\ participants[req[r].id].status \in {"DROPPED", "PAUSED"} )
          => LET id == req[r].id
                 stored == challenges[participants[id].challengeId].targetProgress
                 t == IF stored = 0 THEN 100 ELSE stored
             IN participants'[id].status =
                  IF participants'[id].progress >= t THEN "COMPLETED"
                  ELSE participants[id].status]_vars

\* a DROPPED row took a progress update and is still DROPPED
C27_Witness ==
  /\ res.handler = "updateProgress"
  /\ res.status = 200
  /\ res.message = "Progress updated"
  /\ res.id \in DOMAIN participants
  /\ participants[res.id].status = "DROPPED"
  /\ participants[res.id].progress = 50

(***************************************************************************)
(* C29.  A join answered 201 after the participant of the same user and    *)
(* challenge was deleted inserts a row with progress 0, status ACTIVE,     *)
(* completedAt null and no log rows, and no log row of the deleted         *)
(* participant is left in the table.                                       *)
(***************************************************************************)
C29_RejoinStartsAfresh ==
  [][\A r \in Requests :
       (CreateStep(r) /\ res'.status = 201) =>
         /\ \A p \in DOMAIN participants' \ DOMAIN participants :
              /\ participants'[p].progress = 0
              /\ participants'[p].status = "ACTIVE"
              /\ participants'[p].completedAt = Null
              /\ LogsOf(progressLogs', p) = {}
         /\ \A l \in DOMAIN progressLogs' :
              progressLogs'[l].participantId \in DOMAIN participants]_vars

\* the user joined again after its first participant, which had log rows, was deleted
C29_Witness ==
  /\ res.handler = "createParticipant"
  /\ res.status = 201
  /\ nextParticipantId = 3
  /\ DOMAIN participants = {2}
  /\ nextLogId > 1
  /\ participants[2].progress = 0

(***************************************************************************)
(* C30.  No operation writes Challenge.targetProgress: a step leaves the   *)
(* target of every challenge as it was, a challenge created through the    *)
(* API has the target 100 of the column default and keeps it, and an       *)
(* updateProgress committed in such a challenge completes the participant  *)
(* exactly when the new progress is 100.                                   *)
(***************************************************************************)
C30_TargetProgressNeverWritten ==
  [][/\ \A c \in DOMAIN challenges \cap DOMAIN challenges' :
          challenges'[c].targetProgress = challenges[c].targetProgress
     /\ \A c \in DOMAIN challenges' \ SeededChallenges :
          challenges'[c].targetProgress = 100
     /\ \A r \in Requests :
          ( /\ TransactionStep(r)
            /\ res'.status = 200
            /\ participants[req[r].id].challengeId \notin SeededChallenges )
          => /\ participants'[req[r].id].status = "COMPLETED"
                  <=> participants'[req[r].id].progress = 100
             /\ res'.message = "Congratulations! Challenge completed!"
                  <=> participants'[req[r].id].progress = 100]_vars

\* a challenge created through the API was updated while a participant of it stands
\* completed at 100
C30_Witness ==
  /\ res.handler = "updateChallenge"
  /\ res.status = 200
  /\ res.id \in DOMAIN challenges
  /\ res.id \notin SeedChallenges
  /\ challenges[res.id].targetProgress = 100
  /\ \E p \in DOMAIN participants :
       /\ participants[p].challengeId = res.id
       /\ participants[p].status = "COMPLETED"
       /\ participants[p].progress = 100

(***************************************************************************)
(* C21.  The stats of getUserAllProgress give as total the number of the   *)
(* participant rows of the user, and the counts they give for ACTIVE,      *)
(* COMPLETED, DROPPED and PAUSED (a count the stats do not carry counting  *)
(* for nothing) sum to that total.                                         *)
(***************************************************************************)
C21_StatusCountsSumToTotal ==
  [][AnsweredAtOnce("getUserAllProgress") =>
       LET stats == res'.stats
           Count(k) == IF k \in DOMAIN stats THEN stats[k] ELSE 0
       IN /\ stats.total =
               Cardinality({p \in DOMAIN participants : participants[p].userId = res'.userId})
          /\ Count("active") + Count("completed") + Count("dropped") + Count("paused")
               = stats.total]_vars

\* task r takes the last query step of getChallengeStatistics and answers
StatisticsStep(r) == pc[r] = "getChallengeStatistics_all" /\ pc'[r] = "idle"

\* the sum of the values of a function
RECURSIVE SumOf(_, _)
SumOf(f, keys) ==
  IF keys = {} THEN 0
  ELSE LET k == CHOOSE j \in keys : TRUE IN f[k] + SumOf(f, keys \ {k})

\* the whole days from joinedAt to completedAt of a row, a started day counting as one
DaysOf(row) ==
  LET millis == row.completedAt - row.joinedAt
  IN CHOOSE n \in 0..millis :
       n * 86400000 >= millis /\ (n = 0 \/ (n - 1) * 86400000 < millis)

(***************************************************************************)
(* C22.  With no other request in flight, getChallengeStatistics answers   *)
(* 404 for a challenge that has no row and otherwise 200 with statistics   *)
(* in which the statusBreakdown counts sum to totalParticipants,           *)
(* completedCount is the number of COMPLETED rows of the challenge, and    *)
(* fastestCompletion is null when no row has a completedAt and otherwise   *)
(* the user and days of a row whose days are the least among those rows.   *)
(***************************************************************************)
C22_StatisticsOfQuiescentState ==
  [][\A r \in Requests :
       StatisticsStep(r) =>
         LET id == res'.challengeId
             rows == {p \in DOMAIN participants : participants[p].challengeId = id}
             done == {p \in rows : participants[p].completedAt # Null}
             statistics == res'.statistics
         IN IF id \notin DOMAIN challenges
            THEN res'.status = 404
            ELSE /\ res'.status = 200
                 /\ statistics.totalParticipants = Cardinality(rows)
                 /\ SumOf(statistics.statusBreakdown, DOMAIN statistics.statusBreakdown)
                      = statistics.totalParticipants
                 /\ statistics.completedCount =
                      Cardinality({p \in rows : participants[p].status = "COMPLETED"})
                 /\ IF done = {}
                    THEN statistics.fastestCompletion.userId = Null
                    ELSE \E p \in done :
                           /\ statistics.fastestCompletion.userId = participants[p].userId
                           /\ statistics.fastestCompletion.days = DaysOf(participants[p])
                           /\ \A q \in done :
                                DaysOf(participants[p]) <= DaysOf(participants[q])]_vars

\* of two completed participants the one that took no day is the fastest, the other
\* took one
C22_Witness ==
  /\ res.handler = "getChallengeStatistics"
  /\ res.status = 200
  /\ res.statistics.totalParticipants = 2
  /\ res.statistics.fastestCompletion.userId # Null
  /\ res.statistics.fastestCompletion.days = 0
  /\ \E p \in DOMAIN participants :
       /\ participants[p].challengeId = res.challengeId
       /\ participants[p].completedAt # Null
       /\ participants[p].completedAt > participants[p].joinedAt

(***************************************************************************)
(* C28.  In every answer of getChallengeStatistics completedCount is at    *)
(* most totalParticipants and equals the COMPLETED count of                *)
(* statusBreakdown (none when the breakdown has no such key), also when    *)
(* joins, progress updates, status updates or deletions of participations  *)
(* of the challenge commit between the queries.                            *)
(***************************************************************************)
C28_CompletedCountConsistent ==
  [][\A r \in Requests :
       (StatisticsStep(r) /\ res'.status = 200) =>
         LET statistics == res'.statistics
             breakdown == statistics.statusBreakdown
         IN /\ statistics.completedCount <= statistics.totalParticipants
            /\ statistics.completedCount =
                 (IF "COMPLETED" \in DOMAIN breakdown THEN breakdown["COMPLETED"] ELSE 0)]_vars
====
